---- MODULE Spec2Model ----
(***************************************************************************)
(* A model of flask-file-server (src/file_server.py): the PathView GET and *)
(* POST handlers, the directory listing pipeline (enumeration, filter,     *)
(* totals, sorted_contents, paginate), the Range engine (get_range,        *)
(* partial_response) and the upload loop.                                  *)
(*                                                                         *)
(* Strings the code parses are sequences of one-character (or one-word)    *)
(* tokens, so that parsing is computed and not assumed.  A filesystem path *)
(* is the sequence of its components: <<>> is "/", <<"home">> is "/home".   *)
(* An optional value (Python's None or a value) is a set with no or one    *)
(* element.                                                                *)
(***************************************************************************)
EXTENDS Integers, Sequences, FiniteSets, TLC

VARIABLES
    fs,       \* the filesystem: canonical path -> node
    req,      \* the request being answered
    io,       \* what the operating system does during this request
    res,      \* the response returned by the handler
    pc,       \* "idle", "handling" (a request is routed) or "done"
    touched   \* canonical paths the handler listed, read or wrote

vars == <<fs, req, io, res, pc, touched>>

\* ------------------------------------------------------------------ bounds

MaxSegs == 2        \* components in a request path
MaxHdrLen == 5      \* tokens in a Range header value
MaxPage == 2        \* largest page number requested
MaxPageSize == 2    \* largest page size requested
MaxFiles == 2       \* streams in one upload batch

\* --------------------------------------------------------------- utilities

Min(a, b) == IF a < b THEN a ELSE b

Max(a, b) == IF a > b THEN a ELSE b

The(s) == CHOOSE x \in s : TRUE

SeqsUpTo(S, n) == UNION {[1..k -> S] : k \in 0..n}

Digits == <<"0", "1", "2", "3", "4", "5", "6", "7", "8", "9">>

IsDigit(c) == \E i \in 1..10 : Digits[i] = c

DigitVal(c) == (CHOOSE i \in 1..10 : Digits[i] = c) - 1

\* Python's int() of a non-empty run of decimal digits.
RECURSIVE DecVal(_)
DecVal(ds) ==
    IF ds = <<>> THEN 0
    ELSE 10 * DecVal(SubSeq(ds, 1, Len(ds) - 1)) + DigitVal(ds[Len(ds)])

\* Length of the longest prefix of s made of digits (the regex's greedy \d+).
RECURSIVE DigitRun(_)
DigitRun(s) ==
    IF s = <<>> \/ ~IsDigit(Head(s)) THEN 0 ELSE 1 + DigitRun(Tail(s))

\* -------------------------------------------------------------- filesystem

root == <<"home">>

ignored ==
    {".bzr", "$RECYCLE.BIN", ".DAV", ".DS_Store", ".git", ".hg", ".htaccess",
     ".htpasswd", ".Spotlight-V100", ".svn", "__MACOSX", "ehthumbs.db",
     "robots.txt", "Thumbs.db", "thumbs.tps"}

\* The names of the model in the order Python compares strings (by code
\* point), and those of them that begin with '.'.
NameOrder ==
    <<"..", ".env", ".git", "a.txt", "b.md", "config", "docs", "home",
      "robots.txt", "secret", "up.txt">>

DotNames == {"..", ".env", ".git"}

Dir(names, sz, mt) ==
    [kind |-> "dir", entries |-> names, data |-> <<>>, size |-> sz, mtime |-> mt]

RegFile(bytes, mt) ==
    [kind |-> "file", entries |-> <<>>, data |-> bytes, size |-> Len(bytes),
     mtime |-> mt]

\* The tree served at start: the root /home, a file and a directory above
\* and beside it, a dotfile, a deny-listed file and a deny-listed directory.
InitFS ==
    (<<>> :> Dir(<<"home", "secret">>, 3, 1))
    @@ (<<"secret">> :> RegFile(<<7>>, 1))
    @@ (<<"home">> :> Dir(<<"robots.txt", "docs", ".env", "a.txt">>, 3, 6))
    @@ (<<"home", "robots.txt">> :> RegFile(<<6, 6>>, 2))
    @@ (<<"home", "docs">> :> Dir(<<".git", "b.md">>, 3, 5))
    @@ (<<"home", ".env">> :> RegFile(<<5>>, 1))
    @@ (<<"home", "a.txt">> :> RegFile(<<10, 11, 12>>, 3))
    @@ (<<"home", "docs", ".git">> :> Dir(<<"config">>, 3, 4))
    @@ (<<"home", "docs", ".git", "config">> :> RegFile(<<8>>, 4))
    @@ (<<"home", "docs", "b.md">> :> RegFile(<<20, 21>>, 4))

\* os.path.join(a, p) for a relative p (the router never passes a p that
\* begins with '/').
join(a, p) == a \o p

parent(q) == IF q = <<>> THEN <<>> ELSE SubSeq(q, 1, Len(q) - 1)

\* The kernel's resolution of an absolute path: each component is looked up
\* in the directory reached so far, ".." steps to the parent ("/" is its own
\* parent).  The set holds the canonical path, or nothing (ENOENT, ENOTDIR).
RECURSIVE namei(_, _, _)
namei(f, cur, rest) ==
    IF cur \notin DOMAIN f THEN {}
    ELSE IF rest = <<>> THEN {cur}
    ELSE IF f[cur].kind # "dir" THEN {}
    ELSE IF Head(rest) = ".." THEN namei(f, parent(cur), Tail(rest))
    ELSE namei(f, cur \o <<Head(rest)>>, Tail(rest))

realpath(f, path) == namei(f, <<>>, path)

isdir(f, path) == \E q \in realpath(f, path) : f[q].kind = "dir"

isfile(f, path) == \E q \in realpath(f, path) : f[q].kind = "file"

\* ------------------------------------------------------------ Range engine

\* re.match(r"bytes=(?P<start>\d+)-(?P<end>\d+)?", range): anchored at the
\* start only; whatever follows the match is ignored.  No match: (0, None).
get_range(range) ==
    LET rest1 == IF range = <<>> THEN <<>> ELSE Tail(range)
        n1 == DigitRun(rest1)
        rest2 == SubSeq(rest1, n1 + 1, Len(rest1))
        rest3 == IF rest2 = <<>> THEN <<>> ELSE Tail(rest2)
        n2 == DigitRun(rest3)
        m == /\ range # <<>>
             /\ Head(range) = "bytes="
             /\ n1 >= 1
             /\ rest2 # <<>>
             /\ Head(rest2) = "-"
    IN  IF m
        THEN [start |-> DecVal(SubSeq(rest1, 1, n1)),
              end |-> IF n2 >= 1 THEN {DecVal(SubSeq(rest3, 1, n2))} ELSE {}]
        ELSE [start |-> 0, end |-> {}]

\* Python's xs[a:b] for integers a and b of either sign.
PySlice(xs, a, b) ==
    LET n == Len(xs)
        lo == IF a < 0 THEN Max(a + n, 0) ELSE Min(a, n)
        hi == IF b < 0 THEN Max(b + n, 0) ELSE Min(b, n)
    IN  IF lo < hi THEN SubSeq(xs, lo + 1, hi) ELSE <<>>

NoListing == [contents |-> <<>>, total |-> [size |-> 0, dir |-> 0, file |-> 0],
              page |-> 0, page_size |-> 0, hide_dotfile |-> ""]

NoInfo == [status |-> "", msg |-> ""]

\* A response: its status, its kind, and what it carries.
Response(st, what, body, content_range, listing, info) ==
    [status |-> st, what |-> what, body |-> body,
     content_range |-> content_range,
     accept_ranges |-> IF what = "partial" THEN "bytes" ELSE "",
     disposition |-> IF what = "file" THEN "attachment" ELSE "",
     cookie |-> IF what = "listing" THEN listing.hide_dotfile ELSE "",
     listing |-> listing, info |-> info]

\* An exception that leaves the handler: the framework answers 500.
ServerError == Response(500, "error", <<>>, <<>>, NoListing, NoInfo)

\* fd.seek(start); fd.read(length) on a buffered binary file: a length below
\* -1 raises ValueError, -1 reads to the end of the file.
fd_read(data, start, length) ==
    IF length = -1 THEN PySlice(data, start, Len(data))
    ELSE PySlice(data, start, start + length)

\* partial_response with the length taken as end - start.
partial_response_short(node, start, endopt) ==
    LET file_size == node.size
        end == IF endopt = {} THEN file_size - 1 ELSE The(endopt)
        length == end - start
        bytes == fd_read(node.data, start, length)
    IN  IF length < -1 THEN ServerError
        ELSE IF Len(bytes) # length THEN ServerError
        ELSE Response(206, "partial", bytes, <<start, end, file_size>>,
                      NoListing, NoInfo)

partial_response(node, start, endopt) ==
    LET file_size == node.size
        end == IF endopt = {} THEN file_size - 1 ELSE The(endopt)
        length == end - start + 1
        bytes == fd_read(node.data, start, length)
    IN  IF length < -1 THEN ServerError
        ELSE IF Len(bytes) # length THEN ServerError
        ELSE Response(206, "partial", bytes, <<start, end, file_size>>,
                      NoListing, NoInfo)

send_file(node) == Response(200, "file", node.data, <<>>, NoListing, NoInfo)

\* ------------------------------------------------------- directory listing

\* File.__init__: the path as joined (not resolved) and its base name.
File(full_path) == [path |-> full_path, name |-> full_path[Len(full_path)]]

\* File.stat: os.stat, tried a second time when it raises; None when both
\* attempts raise.  io.stat1 and io.stat2 are the canonical paths on which
\* the first and the second attempt fail.
File_stat(f, o, file) ==
    LET q == realpath(f, file.path)
    IN  IF q = {} THEN {}
        ELSE IF The(q) \in o.stat1 /\ The(q) \in o.stat2 THEN {}
        ELSE {f[The(q)]}

File_type(st) == IF st.kind = "dir" THEN "dir" ELSE "file"

\* File.ignored testing the path where the name is meant.
File_ignored_path(file) == file.path \in {<<n>> : n \in ignored}

File_ignored(file) == file.name \in ignored

File_hidden(file) == file.name \in DotNames

\* os.listdir(path): the children in directory order.
iter_files(f, path) ==
    LET names == f[The(realpath(f, path))].entries
    IN  [i \in 1..Len(names) |-> File(join(path, <<names[i]>>))]

\* os.walk(path), top-down: the non-directories of a directory in directory
\* order, then each sub-directory in turn.  Directories are not yielded.
RECURSIVE iter_recursive_files(_, _)
RECURSIVE walk_dirs(_, _, _)
iter_recursive_files(f, path) ==
    LET names == f[The(realpath(f, path))].entries
        IsSub(n) == f[The(realpath(f, path)) \o <<n>>].kind = "dir"
        files == SelectSeq(names, LAMBDA n : ~IsSub(n))
        dirs == SelectSeq(names, IsSub)
    IN  [i \in 1..Len(files) |-> File(join(path, <<files[i]>>))]
        \o walk_dirs(f, path, dirs)

walk_dirs(f, path, dirs) ==
    IF dirs = <<>> THEN <<>>
    ELSE iter_recursive_files(f, join(path, <<Head(dirs)>>))
         \o walk_dirs(f, path, Tail(dirs))

\* The loop with the totals taken before the dotfile filter.
RECURSIVE filter_loop_early_total(_, _, _, _, _)
filter_loop_early_total(f, o, hide, files, acc) ==
    IF files = <<>> THEN acc
    ELSE LET file == Head(files)
             st == File_stat(f, o, file)
             skip == File_ignored(file) \/ st = {}
             hid == hide = "yes" /\ File_hidden(file)
             type == File_type(The(st))
             entry == [path |-> file.path, name |-> file.name, type |-> type,
                       size |-> The(st).size, mtime |-> The(st).mtime]
             next == [contents |-> IF hid THEN acc.contents
                                   ELSE Append(acc.contents, entry),
                      total |-> [size |-> acc.total.size + The(st).size,
                                 dir |-> acc.total.dir
                                         + (IF type = "dir" THEN 1 ELSE 0),
                                 file |-> acc.total.file
                                          + (IF type = "file" THEN 1 ELSE 0)]]
         IN  filter_loop_early_total(f, o, hide, Tail(files),
                                     IF skip THEN acc ELSE next)

\* The loop of PathView.get over the iterator: the deny-list, the dotfile
\* filter, the stat check, then the totals and the append.
RECURSIVE filter_loop(_, _, _, _, _)
filter_loop(f, o, hide, files, acc) ==
    IF files = <<>> THEN acc
    ELSE LET file == Head(files)
             st == File_stat(f, o, file)
             skip == \/ File_ignored(file)
                     \/ (hide = "yes" /\ File_hidden(file))
                     \/ st = {}
             type == File_type(The(st))
             entry == [path |-> file.path, name |-> file.name, type |-> type,
                       size |-> The(st).size, mtime |-> The(st).mtime]
             next == [contents |-> Append(acc.contents, entry),
                      total |-> [size |-> acc.total.size + The(st).size,
                                 dir |-> acc.total.dir
                                         + (IF type = "dir" THEN 1 ELSE 0),
                                 file |-> acc.total.file
                                          + (IF type = "file" THEN 1 ELSE 0)]]
         IN  filter_loop(f, o, hide, Tail(files),
                         IF skip THEN acc ELSE next)

\* ------------------------------------------------------ sorting and paging

NameRank(n) == CHOOSE i \in 1..Len(NameOrder) : NameOrder[i] = n

\* a < b for two path strings, component by component.
RECURSIVE PathLess(_, _)
PathLess(a, b) ==
    IF b = <<>> THEN FALSE
    ELSE IF a = <<>> THEN TRUE
    ELSE IF Head(a) # Head(b) THEN NameRank(Head(a)) < NameRank(Head(b))
    ELSE PathLess(Tail(a), Tail(b))

\* The attributes of a File object that getattr finds.
FileDataAttrs == {"name", "type", "size", "mtime", "path"}

FileMethodAttrs == {"ignored", "hidden", "get_absolute_url"}

\* sorting.lstrip("-")
RECURSIVE lstrip_dash(_)
lstrip_dash(s) ==
    IF s # <<>> /\ Head(s) = "-" THEN lstrip_dash(Tail(s)) ELSE s

\* getattr(f, key, None) can be ordered with '<': strings and numbers can,
\* None and bound methods cannot (TypeError).
KeyOrderable(key) == Len(key) = 1 /\ key[1] \in FileDataAttrs

\* getattr(a, key) < getattr(b, key) for an orderable key.
KeyLess(key, a, b) ==
    CASE key[1] = "name" -> NameRank(a.name) < NameRank(b.name)
      [] key[1] = "type" -> a.type = "dir" /\ b.type = "file"
      [] key[1] = "size" -> a.size < b.size
      [] key[1] = "mtime" -> a.mtime < b.mtime
      [] key[1] = "path" -> PathLess(a.path, b.path)

\* One step of a stable sort: x goes after every element that does not have
\* to follow it.
insort(key, reverse, done, x) ==
    LET After(y) == IF reverse THEN KeyLess(key, y, x) ELSE KeyLess(key, x, y)
        k == IF \E i \in 1..Len(done) : After(done[i])
             THEN (CHOOSE i \in 1..Len(done) :
                      After(done[i]) /\ \A j \in 1..(i - 1) : ~After(done[j])) - 1
             ELSE Len(done)
    IN  SubSeq(done, 1, k) \o <<x>> \o SubSeq(done, k + 1, Len(done))

\* sorted(contents, reverse=reverse, key=...): stable in both directions.
RECURSIVE py_sorted(_, _, _, _)
py_sorted(key, reverse, done, todo) ==
    IF todo = <<>> THEN done
    ELSE py_sorted(key, reverse, insort(key, reverse, done, Head(todo)), Tail(todo))

\* sorted_contents(contents, sorting): [raised, contents].  sorted() raises
\* TypeError at its first comparison when the keys cannot be ordered.
sorted_contents(contents, sorting) ==
    IF sorting = {} \/ The(sorting) = <<>>
    THEN [raised |-> FALSE, contents |-> contents]
    ELSE LET reverse == Head(The(sorting)) = "-"
             key == lstrip_dash(The(sorting))
         IN  IF KeyOrderable(key)
             THEN [raised |-> FALSE,
                   contents |-> py_sorted(key, reverse, <<>>, contents)]
             ELSE IF Len(contents) >= 2
             THEN [raised |-> TRUE, contents |-> <<>>]
             ELSE [raised |-> FALSE, contents |-> contents]

\* int(x) of a query parameter: TypeError for None, ValueError for text that
\* is not an optionally signed run of digits; the set is empty when it raises.
py_int(x) ==
    IF x = {} THEN {}
    ELSE LET s == The(x)
             neg == s # <<>> /\ Head(s) = "-"
             ds == IF neg THEN Tail(s) ELSE s
         IN  IF ds # <<>> /\ DigitRun(ds) = Len(ds)
             THEN {IF neg THEN 0 - DecVal(ds) ELSE DecVal(ds)}
             ELSE {}

DefaultPageSize == 100

get_page(r) == IF py_int(r.page) = {} THEN 0 ELSE The(py_int(r.page))

get_page_size(r) ==
    IF py_int(r.page_size) = {} THEN DefaultPageSize ELSE The(py_int(r.page_size))

\* paginate with the page taken as one-based.
paginate_one_based(contents, page, page_size) ==
    IF page = {} \/ page_size = {} THEN contents
    ELSE LET start == (The(page) - 1) * The(page_size)
             end == start + The(page_size)
         IN  PySlice(contents, start, end)

\* paginate(contents, page, page_size): page and page_size are optional
\* integers here (empty when int() would raise inside paginate).
paginate(contents, page, page_size) ==
    IF page = {} \/ page_size = {} THEN contents
    ELSE LET start == The(page) * The(page_size)
             end == start + The(page_size)
         IN  PySlice(contents, start, end)

\* ------------------------------------------------------------ PathView.get

NoTotal == [size |-> 0, dir |-> 0, file |-> 0]

\* hide_dotfile: the query argument, else the cookie, else "no".
hide_dotfile(r) ==
    IF r.hide_arg # {} THEN The(r.hide_arg)
    ELSE IF r.hide_cookie # {} THEN The(r.hide_cookie)
    ELSE "no"

\* The directory branch up to the sort: the iterator, the filtered contents
\* with their totals, and the sorted contents.
listing(f, o, r) ==
    LET path == join(root, r.p)
        iterator ==
            IF r.recursive = {"yes"}
            THEN iter_recursive_files(f, path)
            ELSE iter_files(f, path)
        acc == filter_loop(f, o, hide_dotfile(r), iterator,
                           [contents |-> <<>>, total |-> NoTotal])
        srt == sorted_contents(acc.contents, r.sorting)
    IN  [iterator |-> iterator, total |-> acc.total, raised |-> srt.raised,
         contents |-> srt.contents]

get(f, o, r) ==
    LET path == join(root, r.p)
        lst == listing(f, o, r)
        paged == paginate(lst.contents, {get_page(r)}, {get_page_size(r)})
        node == f[The(realpath(f, path))]
        rng == get_range(The(r.range))
    IN  IF isdir(f, path)
        THEN [res |-> IF lst.raised THEN ServerError
                      ELSE Response(200, "listing", <<>>, <<>>,
                                    [contents |-> paged,
                                     total |-> lst.total,
                                     page |-> get_page(r),
                                     page_size |-> get_page_size(r),
                                     hide_dotfile |-> hide_dotfile(r)],
                                    NoInfo),
              touched |-> realpath(f, path) \cup
                  UNION {realpath(f, lst.iterator[i].path) :
                            i \in 1..Len(lst.iterator)}]
        ELSE IF isfile(f, path)
        THEN [res |-> IF r.range # {}
                      THEN partial_response(node, rng.start, rng.end)
                      ELSE send_file(node),
              touched |-> realpath(f, path)]
        ELSE [res |-> Response(404, "notfound", <<>>, <<>>, NoListing, NoInfo),
              touched |-> {}]

\* ----------------------------------------------------------- PathView.post

\* werkzeug's secure_filename on a client file name given as its '/'-separated
\* components: separators and ".." components do not survive.  "" when
\* nothing is left.  (Names with several surviving components, which it joins
\* with '_', are outside the inputs of the model.)
secure_filename(filename) ==
    LET kept == SelectSeq(filename, LAMBDA c : c # "..")
    IN  IF kept = <<>> THEN "" ELSE kept[1]

\* file.save(os.path.join(path, filename)): open(dst, "wb") and copy.
\* outcome is what the operating system does: "ok", "EACCES" (the open
\* fails) or "ENOSPC" (the copy fails after the open truncated the file).
\* [fs, err, wrote]: the filesystem afterwards, the exception's text ("" if
\* none) and the path written.
save(f, path, filename, data, outcome) ==
    LET d == The(realpath(f, path))
        q == d \o <<filename>>
        written == IF outcome = "ok" THEN data ELSE <<>>
        g == [x \in DOMAIN f \cup {q} |->
                IF x = q THEN RegFile(written, 9)
                ELSE IF x = d /\ q \notin DOMAIN f
                THEN Dir(Append(f[d].entries, filename), f[d].size, f[d].mtime)
                ELSE f[x]]
    IN  IF realpath(f, path) = {} THEN [fs |-> f, err |-> "ENOENT", wrote |-> {}]
        ELSE IF f[d].kind # "dir" THEN [fs |-> f, err |-> "ENOTDIR", wrote |-> {}]
        ELSE IF filename = "" THEN [fs |-> f, err |-> "EISDIR", wrote |-> {}]
        ELSE IF q \in DOMAIN f /\ f[q].kind = "dir"
        THEN [fs |-> f, err |-> "EISDIR", wrote |-> {}]
        ELSE IF outcome = "EACCES" THEN [fs |-> f, err |-> "EACCES", wrote |-> {}]
        ELSE [fs |-> g, err |-> IF outcome = "ok" THEN "" ELSE outcome,
              wrote |-> {q}]

\* The loop leaving the batch at the first stream that fails.
RECURSIVE post_loop_abort(_, _, _, _, _)
post_loop_abort(o, path, files, i, st) ==
    IF i > Len(files) THEN st
    ELSE LET filename == secure_filename(files[i].filename)
             sv == save(st.fs, path, filename, files[i].data, o.save[i])
             info == IF sv.err # ""
                     THEN [status |-> "error", msg |-> sv.err]
                     ELSE [status |-> "success", msg |-> "File Saved"]
             next == [fs |-> sv.fs, info |-> info,
                      touched |-> st.touched \cup sv.wrote]
         IN  IF sv.err # "" THEN next
             ELSE post_loop_abort(o, path, files, i + 1, next)

\* The loop over request.files.getlist("files[]"): each stream is saved inside
\* its own try; info is overwritten by every stream.
RECURSIVE post_loop(_, _, _, _, _)
post_loop(o, path, files, i, st) ==
    IF i > Len(files) THEN st
    ELSE LET filename == secure_filename(files[i].filename)
             sv == save(st.fs, path, filename, files[i].data, o.save[i])
             info == IF sv.err # ""
                     THEN [status |-> "error", msg |-> sv.err]
                     ELSE [status |-> "success", msg |-> "File Saved"]
         IN  post_loop(o, path, files, i + 1,
                       [fs |-> sv.fs, info |-> info,
                        touched |-> st.touched \cup sv.wrote])

\* post without the test that the target is a directory.
post_unchecked(f, o, r) ==
    LET st == post_loop(o, join(root, r.p), r.files, 1,
                        [fs |-> f, info |-> NoInfo, touched |-> {}])
    IN  [fs |-> st.fs,
         res |-> Response(200, "json", <<>>, <<>>, NoListing, st.info),
         touched |-> st.touched]

post(f, o, r) ==
    LET path == join(root, r.p)
        st == IF isdir(f, path)
              THEN post_loop(o, path, r.files, 1,
                             [fs |-> f, info |-> NoInfo, touched |-> {}])
              ELSE [fs |-> f,
                    info |-> [status |-> "error", msg |-> "Invalid Operation"],
                    touched |-> {}]
    IN  [fs |-> st.fs,
         res |-> Response(200, "json", <<>>, <<>>, NoListing, st.info),
         touched |-> st.touched]

\* ---------------------------------------------------------------- requests

Request(method, p, range, hide, recursive, sorting, page, page_size, files) ==
    [method |-> method, p |-> p, range |-> range, hide_arg |-> hide[1],
     hide_cookie |-> hide[2], recursive |-> recursive, sorting |-> sorting,
     page |-> page, page_size |-> page_size, files |-> files]

\* A request with nothing but a method and a path.
BaseReq(method, p) == Request(method, p, {}, <<{}, {}>>, {}, {}, {}, {}, <<>>)

IO(stat1, stat2, sv) == [stat1 |-> stat1, stat2 |-> stat2, save |-> sv]

Init ==
    /\ fs = InitFS
    /\ req = BaseReq("", <<>>)
    /\ io = IO({}, {}, <<>>)
    /\ res = Response(0, "", <<>>, <<>>, NoListing, NoInfo)
    /\ pc = "idle"
    /\ touched = {}

\* A request arrives and is routed to the view (enabled when idle: the
\* callers below test pc before they choose the request).
Receive(r, o) ==
    /\ req' = r
    /\ io' = o
    /\ pc' = "handling"
    /\ UNCHANGED <<fs, res, touched>>

HandleGet ==
    /\ pc = "handling"
    /\ req.method = "GET"
    /\ res' = get(fs, io, req).res
    /\ touched' = get(fs, io, req).touched
    /\ pc' = "done"
    /\ UNCHANGED <<fs, req, io>>

HandlePost ==
    /\ pc = "handling"
    /\ req.method = "POST"
    /\ res' = post(fs, io, req).res
    /\ touched' = post(fs, io, req).touched
    /\ fs' = post(fs, io, req).fs
    /\ pc' = "done"
    /\ UNCHANGED <<req, io>>

\* The response is sent; nothing of the request outlives it but the files.
Close ==
    /\ pc = "done"
    /\ req' = BaseReq("", <<>>)
    /\ io' = IO({}, {}, <<>>)
    /\ res' = Response(0, "", <<>>, <<>>, NoListing, NoInfo)
    /\ pc' = "idle"
    /\ touched' = {}
    /\ UNCHANGED fs

\* Requests for every path of up to MaxSegs components.
Segs == {"..", "home", "docs", "a.txt", "secret"}

PathInputs == SeqsUpTo(Segs, MaxSegs)

OneStream == [filename |-> <<"..", "up.txt">>, data |-> <<1>>]

RecvGetPath ==
    /\ pc = "idle"
    /\ \E p \in PathInputs, rec \in {{}, {"yes"}} :
        Receive(Request("GET", p, {}, <<{}, {}>>, rec, {}, {}, {}, <<>>),
                IO({}, {}, <<>>))

RecvPostPath ==
    /\ pc = "idle"
    /\ \E p \in PathInputs, oc \in {"ok", "EACCES"} :
        Receive(Request("POST", p, {}, <<{}, {}>>, {}, {}, {}, {}, <<OneStream>>),
                IO({}, {}, <<oc>>))

Next == RecvGetPath \/ RecvPostPath \/ HandleGet \/ HandlePost \/ Close

Spec == Init /\ [][Next]_vars

\* Range requests on the files under the root.
RangeTokens == {"bytes=", "-", ",", "0", "1", "2"}

MultiRange == <<"bytes=", "0", "-", "1", ",", "2", "-", "2">>

RangeInputs == SeqsUpTo(RangeTokens, MaxHdrLen) \cup {MultiRange}

FilePaths == {<<"a.txt">>, <<"docs", "b.md">>}

RecvRange ==
    /\ pc = "idle"
    /\ \E p \in FilePaths, h \in RangeInputs :
        Receive(Request("GET", p, {h}, <<{}, {}>>, {}, {}, {}, {}, <<>>),
                IO({}, {}, <<>>))

RecvFull ==
    /\ pc = "idle"
    /\ \E p \in FilePaths : Receive(BaseReq("GET", p), IO({}, {}, <<>>))

NextRange == RecvRange \/ RecvFull \/ HandleGet \/ Close

SpecRange == Init /\ [][NextRange]_vars

\* Directory listings with every query parameter and stat outcome.
ListingPaths == {<<>>, <<"docs">>}

HideInputs == {<<{}, {}>>, <<{}, {"yes"}>>, <<{"yes"}, {}>>, <<{"no"}, {"yes"}>>}

SortInputs ==
    {{}, {<<>>}, {<<"name">>}, {<<"-", "name">>}, {<<"size">>}, {<<"-", "size">>},
     {<<"type">>}, {<<"-", "mtime">>}, {<<"path">>}, {<<"-", "-", "size">>},
     {<<"kind">>}, {<<"-", "modifiedAt">>}, {<<"hidden">>}, {<<"-">>}}

PageInputs ==
    {{}, {<<"x">>}, {<<"-", "1">>}} \cup {{<<Digits[n + 1]>>} : n \in 0..MaxPage}

PageSizeInputs ==
    {{}, {<<"x">>}, {<<"-", "1">>}} \cup {{<<Digits[n + 1]>>} : n \in 0..MaxPageSize}

\* The children whose stat may fail: once (a retry succeeds) or twice.
StatTargets == {<<"home", "a.txt">>, <<"home", "docs", "b.md">>}

RecvListing ==
    /\ pc = "idle"
    /\ \E p \in ListingPaths, h \in HideInputs, rec \in {{}, {"yes"}},
       s \in SortInputs, pg \in PageInputs, ps \in PageSizeInputs,
       s1 \in SUBSET StatTargets :
        \E s2 \in SUBSET s1 :
            Receive(Request("GET", p, {}, h, rec, s, pg, ps, <<>>),
                    IO(s1, s2, <<>>))

NextListing == RecvListing \/ HandleGet \/ Close

SpecListing == Init /\ [][NextListing]_vars

\* Upload batches of up to MaxFiles streams.
UploadPaths == {<<>>, <<"docs">>, <<"a.txt">>, <<"nope">>}

UploadStreams ==
    {[filename |-> <<"up.txt">>, data |-> <<1>>],
     [filename |-> <<"..", "up.txt">>, data |-> <<2>>],
     [filename |-> <<"..">>, data |-> <<1>>]}

SaveOutcomes == {"ok", "EACCES", "ENOSPC"}

RecvUpload ==
    /\ pc = "idle"
    /\ \E p \in UploadPaths, files \in SeqsUpTo(UploadStreams, MaxFiles) :
        \E sv \in [1..Len(files) -> SaveOutcomes] :
            Receive(Request("POST", p, {}, <<{}, {}>>, {}, {}, {}, {}, files),
                    IO({}, {}, sv))

NextUpload == RecvUpload \/ HandlePost \/ Close

SpecUpload == Init /\ [][NextUpload]_vars

\* =================================================================== claims

IsUnder(a, q) == Len(q) >= Len(a) /\ SubSeq(q, 1, Len(a)) = a

\* The path with its ".." components folded away, as a reader of the URL
\* understands it.
RECURSIVE Normal(_, _)
Normal(cur, rest) ==
    IF rest = <<>> THEN cur
    ELSE IF Head(rest) = ".." THEN Normal(parent(cur), Tail(rest))
    ELSE Normal(cur \o <<Head(rest)>>, Tail(rest))

Escapes(p) == ~IsUnder(root, Normal(<<>>, join(root, p)))

\* C1: for every GET or POST request path, whatever the handler lists, reads
\* or writes lies within the root, and a path that would escape the root is
\* answered not-found or forbidden.
C1_PathConfined ==
    pc = "done" =>
        /\ \A q \in touched : IsUnder(root, q)
        /\ Escapes(req.p) => res.status \in {403, 404}

\* The header is exactly bytes=<digits>-[<digits>].
DashAt(h) == CHOOSE k \in 1..Len(h) : h[k] = "-"

IsSingleRange(h) ==
    /\ Len(h) >= 3
    /\ h[1] = "bytes="
    /\ \E k \in 3..Len(h) : h[k] = "-"
    /\ \A i \in 2..Len(h) : i # DashAt(h) => IsDigit(h[i])

RangeStart(h) == DecVal(SubSeq(h, 2, DashAt(h) - 1))

EndGiven(h) == DashAt(h) < Len(h)

TargetNode == fs[The(realpath(fs, join(root, req.p)))]

\* The last byte asked for: the end given, else the last byte of the file.
RangeEnd(h) ==
    IF EndGiven(h) THEN DecVal(SubSeq(h, DashAt(h) + 1, Len(h)))
    ELSE TargetNode.size - 1

RangeRequest == pc = "done" /\ req.method = "GET" /\ req.range # {}

\* C2: a well-formed single range with start > end or end >= fileSize is
\* answered range-not-satisfiable; no 206 and no bytes of the file.
C2_UnsatisfiableRange ==
    (/\ RangeRequest
     /\ IsSingleRange(The(req.range))
     /\ \/ RangeStart(The(req.range)) > RangeEnd(The(req.range))
        \/ RangeEnd(The(req.range)) >= TargetNode.size)
    => (res.status = 416 /\ res.body = <<>>)

\* C3: a Range header that is not exactly the single-range form (unparseable
\* text, a comma-separated list) is answered range-not-satisfiable; neither
\* the whole file nor the first range of the list is served.
C3_MalformedRange ==
    (RangeRequest /\ ~IsSingleRange(The(req.range)))
    => (res.status = 416 /\ res.body = <<>>)

ValidRange(h) ==
    /\ IsSingleRange(h)
    /\ RangeStart(h) <= RangeEnd(h)
    /\ RangeEnd(h) < TargetNode.size

\* C4: a single range with 0 <= start <= end < fileSize (end defaulting to
\* fileSize - 1) is answered 206 with exactly the bytes start..end, with
\* Content-Range: bytes start-end/fileSize and Accept-Ranges: bytes.
C4_ValidRange ==
    (RangeRequest /\ ValidRange(The(req.range)))
    => LET h == The(req.range)
       IN  /\ res.status = 206
           /\ Len(res.body) = RangeEnd(h) - RangeStart(h) + 1
           /\ \A i \in 1..Len(res.body) :
                 res.body[i] = TargetNode.data[RangeStart(h) + i]
           /\ res.content_range = <<RangeStart(h), RangeEnd(h), TargetNode.size>>
           /\ res.accept_ranges = "bytes"

\* A two-byte window that starts inside a three-byte file, end omitted.
C4_Witness ==
    /\ RangeRequest
    /\ req.range = {<<"bytes=", "1", "-">>}
    /\ res.status = 206
    /\ res.body = <<11, 12>>
    /\ res.content_range = <<1, 2, 3>>

ListingRequest ==
    pc = "done" /\ req.method = "GET" /\ isdir(fs, join(root, req.p))

Last(q) == q[Len(q)]

\* A decimal numeral, and one with a minus sign before it.
Numeral(s) == s # <<>> /\ \A i \in 1..Len(s) : IsDigit(s[i])

Negative(x) == x # {} /\ The(x) # <<>> /\ Head(The(x)) = "-" /\ Numeral(Tail(The(x)))

\* The number a query parameter stands for: its value, or the default when
\* it is absent or not a numeral.
ParamOr(x, default) ==
    IF x # {} /\ Numeral(The(x)) THEN DecVal(The(x)) ELSE default

\* The sort field: the key without its one optional leading '-'.
SortField ==
    IF Head(The(req.sorting)) = "-" THEN Tail(The(req.sorting)) ELSE The(req.sorting)

SortGiven == req.sorting # {} /\ The(req.sorting) # <<>>

\* The supported sort fields, under the attribute names of the File class
\* (type, mtime) and under the names of the data model (kind, modifiedAt).
AttrKeys == {<<"name">>, <<"type">>, <<"size">>, <<"mtime">>}

SupportedKeys == AttrKeys \cup {<<"kind">>, <<"modifiedAt">>}

\* C5: the page emitted is the contiguous slice [p*s, p*s+s) of the sorted
\* listing, clamped to its bounds (empty beyond the end, never an error), for
\* every page p >= 0 and size s >= 0; an absent or non-numeric page or
\* page_size counts as page 0 and size 100.
C5_PaginateSlice ==
    (/\ ListingRequest
     /\ ~listing(fs, io, req).raised
     /\ ~Negative(req.page)
     /\ ~Negative(req.page_size))
    => LET xs == listing(fs, io, req).contents
           p == ParamOr(req.page, 0)
           s == ParamOr(req.page_size, 100)
           lo == Min(p * s, Len(xs))
           hi == Min(p * s + s, Len(xs))
       IN  /\ res.status = 200
           /\ res.listing.page = p
           /\ res.listing.page_size = s
           /\ Len(res.listing.contents) = hi - lo
           /\ \A i \in 1..(hi - lo) : res.listing.contents[i] = xs[lo + i]

\* A non-numeric page with page_size 1: one entry of several, the first.
C5_Witness ==
    /\ ListingRequest
    /\ req.page = {<<"x">>}
    /\ req.page_size = {<<"1">>}
    /\ res.status = 200
    /\ Len(listing(fs, io, req).contents) >= 2
    /\ res.listing.contents = <<listing(fs, io, req).contents[1]>>

HideYes ==
    IF req.hide_arg # {} THEN req.hide_arg = {"yes"} ELSE req.hide_cookie = {"yes"}

Readable(q) == ~(q \in io.stat1 /\ q \in io.stat2)

ListedDir == The(realpath(fs, join(root, req.p)))

\* The nodes a listing enumerates: the children, or in recursive mode the
\* files at any depth.
Enumerated(q) ==
    IF req.recursive = {"yes"}
    THEN IsUnder(ListedDir, q) /\ q # ListedDir /\ fs[q].kind = "file"
    ELSE q # <<>> /\ parent(q) = ListedDir

ExpectedEntries ==
    {q \in DOMAIN fs :
        /\ Enumerated(q)
        /\ Last(q) \notin ignored
        /\ HideYes => Last(q) \notin DotNames
        /\ Readable(q)}

\* C6: every emitted entry is off the deny-list, not a dotfile when
\* hide-dotfile is 'yes', and has readable metadata; an unreadable child is
\* dropped, the others are listed, and the request does not fail for it.
C6_ListingFilter ==
    ListingRequest =>
        /\ \A i \in 1..Len(res.listing.contents) :
              LET e == res.listing.contents[i]
              IN  /\ e.name \notin ignored
                  /\ HideYes => e.name \notin DotNames
                  /\ Readable(The(realpath(fs, e.path)))
        /\ (~SortGiven \/ SortField \in AttrKeys) => res.status = 200
        /\ (res.status = 200 /\ req.page = {} /\ req.page_size = {})
              => {The(realpath(fs, res.listing.contents[i].path)) :
                     i \in 1..Len(res.listing.contents)} = ExpectedEntries

\* a.txt cannot be read, .env is hidden, robots.txt is denied: docs is listed.
C6_Witness ==
    /\ ListingRequest
    /\ req.p = <<>>
    /\ req.recursive = {}
    /\ HideYes
    /\ <<"home", "a.txt">> \in io.stat2
    /\ res.status = 200
    /\ Len(res.listing.contents) = 1
    /\ res.listing.contents[1].name = "docs"

RECURSIVE SumSize(_)
SumSize(S) ==
    IF S = {} THEN 0
    ELSE LET q == CHOOSE x \in S : TRUE IN fs[q].size + SumSize(S \ {q})

\* C7: the totals are those of the whole filtered set, whatever the page,
\* the page size and the sorting: the sizes add up to the total size and the
\* file and directory counts add up to the number of entries.
C7_Totals ==
    (ListingRequest /\ res.status = 200)
    => /\ res.listing.total.size = SumSize(ExpectedEntries)
       /\ res.listing.total.file + res.listing.total.dir
             = Cardinality(ExpectedEntries)
       /\ res.listing.total.dir
             = Cardinality({q \in ExpectedEntries : fs[q].kind = "dir"})

\* A sorted listing cut to one entry of three, the totals still of all three.
C7_Witness ==
    /\ ListingRequest
    /\ res.status = 200
    /\ req.sorting = {<<"-", "size">>}
    /\ req.page_size = {<<"1">>}
    /\ Len(res.listing.contents) = 1
    /\ res.listing.total = [size |-> 7, dir |-> 1, file |-> 2]

\* C8: a non-empty sort key whose field is not a supported attribute is
\* answered with a client error, whatever the number of entries; it is never
\* ignored and no other attribute or method name is accepted.
C8_UnsupportedSortKey ==
    (ListingRequest /\ SortGiven /\ SortField \notin SupportedKeys)
    => res.status \in 400..499

\* A POST is being handled: the step that follows is the handler's.
Posting == pc = "handling" /\ req.method = "POST"

\* C9: a POST whose target is not an existing directory yields the error
\* result and writes no stream: the filesystem is unchanged, however many
\* streams the request carries.
C9_InvalidTarget ==
    [][(Posting /\ ~isdir(fs, join(root, req.p)))
       => /\ fs' = fs
          /\ touched' = {}
          /\ res'.status = 200
          /\ res'.info = [status |-> "error", msg |-> "Invalid Operation"]]_vars

\* Two streams that would both save, posted to a file.
C9_Witness ==
    /\ pc = "done"
    /\ req.method = "POST"
    /\ req.p = <<"a.txt">>
    /\ Len(req.files) = 2
    /\ io.save = <<"ok", "ok">>
    /\ res.info.msg = "Invalid Operation"
    /\ fs = InitFS

\* Stream i of the batch is saved: its name survives sanitising and the
\* operating system lets the write through.
Saved(i) ==
    /\ secure_filename(req.files[i].filename) # ""
    /\ io.save[i] = "ok"

\* Stream i reaches open(dst, "wb"), which creates or truncates dst.
Opened(i) ==
    /\ secure_filename(req.files[i].filename) # ""
    /\ io.save[i] # "EACCES"

\* C10: in a batch posted to a directory every stream is attempted in order:
\* a stream that saves is on disk afterwards unless a later stream of the
\* batch wrote the same name, whatever failed before or after it; no other
\* file changes; and the result returned is the outcome of the last stream
\* alone.
C10_BatchLastOutcome ==
    [][(Posting /\ isdir(fs, join(root, req.p)) /\ Len(req.files) >= 1)
       => LET n == Len(req.files)
              d == The(realpath(fs, join(root, req.p)))
              Dst(i) == d \o <<secure_filename(req.files[i].filename)>>
          IN  /\ res'.info.status = IF Saved(n) THEN "success" ELSE "error"
              /\ Saved(n) => res'.info.msg = "File Saved"
              /\ \A i \in 1..n :
                    (Saved(i) /\ \A j \in (i + 1)..n : ~(Opened(j) /\ Dst(j) = Dst(i)))
                    => (Dst(i) \in DOMAIN fs' /\ fs'[Dst(i)].data = req.files[i].data)
              /\ \A q \in DOMAIN fs \ {d} :
                    (\A i \in 1..n : ~(Opened(i) /\ Dst(i) = q)) => fs'[q] = fs[q]]_vars

\* The first stream is refused, the second is saved: the file is there and
\* the result says success.
C10_Witness ==
    /\ pc = "done"
    /\ req.method = "POST"
    /\ req.p = <<"docs">>
    /\ Len(req.files) = 2
    /\ io.save = <<"EACCES", "ok">>
    /\ req.files[1].data = <<1>>
    /\ req.files[2].data = <<2>>
    /\ res.info = [status |-> "success", msg |-> "File Saved"]
    /\ fs[<<"home", "docs", "up.txt">>].data = <<2>>

====
